---- MODULE Spec2Model ----
(***************************************************************************)
(* Hotel data merger (src/main.py): three supplier adapters parse raw      *)
(* records into partial Hotel records, HotelsService.merge_and_save        *)
(* reduces the records of each id to one hotel, HotelsService.find filters *)
(* and orders the merged hotels, fetch_hotels runs the three stages.       *)
(***************************************************************************)
EXTENDS Integers, Sequences, FiniteSets, TLC

VARIABLES
    pc,                 \* position of the run / of the call under study
    field_kind,         \* longest_content: the class of the field being merged
    content_list,       \* longest_content: the candidates, in group order
    ret,                \* longest_content: the value returned
    amenities_df,       \* merge_amenities: the group's amenities dicts
    amenities_ret,      \* merge_amenities: the dict returned
    images_df,          \* merge_images: the group's images dicts
    images_ret,         \* merge_images: the dict returned
    supplier,           \* parse: the adapter applied
    dto,                \* parse: the raw supplier element
    parsed,             \* parse: the Hotel returned, or the exception raised
    responses,          \* fetch_hotels: what each supplier's endpoint answers
    supp,               \* fetch_hotels: index of the supplier being fetched
    all_supplier_data,  \* fetch_hotels: the partial records fetched so far
    hotels,             \* HotelsService.hotels: the merged catalog
    hotel_ids,          \* find: the hotel_ids argument
    destination_ids,    \* find: the destination_ids argument
    filtered            \* find: the list returned, or the exception raised

vars == <<pc, field_kind, content_list, ret, amenities_df, amenities_ret,
          images_df, images_ret, supplier, dto, parsed, responses, supp,
          all_supplier_data, hotels, hotel_ids, destination_ids, filtered>>

(***************************************************************************)
(* Bounds of the model.                                                    *)
(***************************************************************************)
MaxGroup == 3        \* candidates of one field in a group
MaxMembers == 2      \* members of a group in the amenities / images merges
MaxTokens == 3       \* identifiers in the hotel_ids argument
MaxDestTokens == 2   \* identifiers in the destination_ids argument
MaxElems == 2        \* elements of one supplier's JSON array

(***************************************************************************)
(* Python values. A value is a record of one shape: t its type, s its text *)
(* (a str, or a float written as str() writes it), l its elements (a list  *)
(* of str).                                                                *)
(***************************************************************************)
None == [t |-> "none", s |-> "", l |-> <<>>]
Str(s) == [t |-> "str", s |-> s, l |-> <<>>]
Num(s) == [t |-> "num", s |-> s, l |-> <<>>]
List(l) == [t |-> "list", s |-> "", l |-> l]
\* dataclasses.MISSING: field.default of a dataclass field declared without one
MISSING == [t |-> "missing", s |-> "", l |-> <<>>]
\* an exception propagating out of a call
Raised(e) == [t |-> "raise", s |-> e, l |-> <<>>]

RECURSIVE JoinRepr(_)
JoinRepr(l) ==
    IF Len(l) = 0 THEN ""
    ELSE IF Len(l) = 1 THEN "'" \o l[1] \o "'"
    ELSE "'" \o l[1] \o "', " \o JoinRepr(Tail(l))

\* str(v)
PyStr(v) ==
    CASE v.t = "none" -> "None"
      [] v.t = "str" -> v.s
      [] v.t = "num" -> v.s
      [] v.t = "list" -> "[" \o JoinRepr(v.l) \o "]"
      [] OTHER -> "<missing>"

(***************************************************************************)
(* longest_content                                                         *)
(***************************************************************************)
\* the text of a candidate as the scan measures it
Content(i) ==
    IF PyStr(i) = "None" \/ PyStr(i) = "[]" THEN "" ELSE PyStr(i)

RECURSIVE longest_scan(_, _, _)
longest_scan(list, k, tracked) ==
    IF k > Len(list) THEN tracked
    ELSE LET i == list[k]
             r1 == IF tracked = None THEN i ELSE tracked
             r2 == IF Len(PyStr(r1)) < Len(Content(i)) THEN i ELSE r1
         IN  longest_scan(list, k + 1, r2)

\* the reading under which a group of blank candidates yields the default
longest_content_blank_default(list, default_value) ==
    IF Len(list) = 0 \/ \A k \in 1..Len(list) : Content(list[k]) = ""
    THEN default_value
    ELSE longest_scan(list, 1, None)

longest_content(list, default_value) ==
    IF Len(list) = 0 THEN default_value ELSE longest_scan(list, 1, None)

(***************************************************************************)
(* Candidate values of the scalar fields, by field class.                  *)
(***************************************************************************)
TextValues == {None, Str(""), Str("a"), Str("b"), Str("cc"), Str("None")}
CoordValues == {None, Str(""), Num("1.5"), Num("2.5"), Num("1.25")}
ListValues == {None, List(<<>>), List(<<"a">>), List(<<"b">>), List(<<"a", "b">>)}

KindValues(kind) ==
    CASE kind = "text" -> TextValues
      [] kind = "coord" -> CoordValues
      [] OTHER -> ListValues

SeqsUpTo(S, n) == UNION {[1..k -> S] : k \in 1..n}

IdleLongest == field_kind = "" /\ content_list = <<>> /\ ret = None
IdleAmenities == amenities_df = <<>> /\ amenities_ret = None
IdleImages == images_df = <<>> /\ images_ret = None
IdleParse == supplier = "" /\ dto = None /\ parsed = None
IdleRun == responses = <<>> /\ supp = 0 /\ all_supplier_data = <<>>
IdleFind == hotels = <<>> /\ hotel_ids = <<>> /\ destination_ids = <<>> /\ filtered = None

InitLongest ==
    /\ pc = "call"
    /\ field_kind \in {"text", "coord", "list"}
    /\ content_list \in SeqsUpTo(KindValues(field_kind), MaxGroup)
    /\ ret = None
    /\ IdleAmenities /\ IdleImages /\ IdleParse /\ IdleRun /\ IdleFind

\* merge_and_save / merge_location reduce one field of a group
CallLongest ==
    /\ pc = "call"
    /\ ret' = longest_content(content_list, MISSING)
    /\ pc' = "returned"
    /\ UNCHANGED <<field_kind, content_list, amenities_df, amenities_ret,
                   images_df, images_ret, supplier, dto, parsed, responses, supp,
                   all_supplier_data, hotels, hotel_ids, destination_ids, filtered>>

NextLongest == CallLongest

SpecLongest == InitLongest /\ [][NextLongest]_vars

(***************************************************************************)
(* Claims about longest_content (checked under SpecLongest).               *)
(***************************************************************************)
\* the display form of a candidate: empty for null and for an empty
\* collection, the natural string form of anything else
Display(v) ==
    IF v = None \/ (v.t = "list" /\ v.l = <<>>) THEN "" ELSE PyStr(v)

\* index of the first candidate whose display form has maximum length
FirstLongestIndex(list) ==
    CHOOSE k \in 1..Len(list) :
        /\ \A j \in 1..Len(list) : Len(Display(list[j])) <= Len(Display(list[k]))
        /\ \A j \in 1..(k - 1) : Len(Display(list[j])) < Len(Display(list[k]))

AllBlank(list) == \A k \in 1..Len(list) : Display(list[k]) = ""

\* index of the first candidate that is not null (0 when all are null)
FirstNonNullIndex(list) ==
    IF \A k \in 1..Len(list) : list[k] = None THEN 0
    ELSE CHOOSE k \in 1..Len(list) :
             list[k] # None /\ \A j \in 1..(k - 1) : list[j] = None

\* C1: for every non-empty group of candidates of a scalar field,
\* longest_content returns the first candidate (in group order) whose display
\* form has maximum length; ties keep the earliest candidate.
C1_FirstLongestWins ==
    pc = "returned" => ret = content_list[FirstLongestIndex(content_list)]

\* the type default the claim names: "" for text, unset (null) for coordinates
TypeDefault(kind) == IF kind = "text" THEN Str("") ELSE None

\* C9 as stated: when every candidate of a text or coordinate field has an
\* empty display form, the merged field is the field's type default.
C9_BlankGroupYieldsTypeDefault ==
    (pc = "returned" /\ field_kind \in {"text", "coord"} /\ AllBlank(content_list))
        => ret = TypeDefault(field_kind)

\* C9 as amended: when every candidate of a scalar field has an empty display
\* form, the merged field is no default but one of the candidates: the first
\* candidate that is not null (an empty string or an empty collection), and
\* null when every candidate is null.
C9_BlankGroupYieldsFirstNonNull ==
    (pc = "returned" /\ AllBlank(content_list))
        => /\ ret # MISSING
           /\ ret = IF FirstNonNullIndex(content_list) = 0 THEN None
                    ELSE content_list[FirstNonNullIndex(content_list)]

\* a blank text group led by a null: the empty string after it is returned
C9_Witness ==
    /\ pc = "returned"
    /\ field_kind = "text"
    /\ AllBlank(content_list)
    /\ Len(content_list) >= 2
    /\ content_list[1] = None
    /\ content_list[2] = Str("")
    /\ ret = Str("")

(***************************************************************************)
(* merge_amenities and merge_images                                        *)
(***************************************************************************)
\* fields(Amenities), fields(Images)
AmenitiesFields == <<"general", "room">>
ImagesFields == <<"rooms", "site", "amenities">>

Range(q) == {q[k] : k \in 1..Len(q)}

\* sum([i[name] if name in i.keys() else [] for i in df], []) over the
\* amenities column: the members' lists end to end
RECURSIVE SumAmenities(_, _)
SumAmenities(df, name) ==
    IF Len(df) = 0 THEN <<>>
    ELSE (IF name \in DOMAIN df[1] THEN df[1][name].l ELSE <<>>)
             \o SumAmenities(Tail(df), name)

\* sum() of a member whose sub-list is None raises TypeError
SumRaises(df, name) ==
    \E k \in 1..Len(df) : name \in DOMAIN df[k] /\ df[k][name].t # "list"

\* the lists list(set(x)) can be: the elements of x once each, in any order
ListOfSet(S) ==
    {q \in [1..Cardinality(S) -> S] :
        \A a, b \in 1..Cardinality(S) : a # b => q[a] # q[b]}

\* the sub-list without the set(): duplicates kept
amenities_field_no_set(df, name) == {SumAmenities(df, name)}

\* one sub-list of merge_amenities: every list the call may return
amenities_field(df, name) == ListOfSet(Range(SumAmenities(df, name)))

\* merge_amenities: every outcome of the call
merge_amenities(df) ==
    IF \E f \in Range(AmenitiesFields) : SumRaises(df, f)
    THEN {Raised("TypeError")}
    ELSE {[t |-> "dict", general |-> List(g), room |-> List(r)] :
             g \in amenities_field(df, AmenitiesFields[1]),
             r \in amenities_field(df, AmenitiesFields[2])}

\* sum([i[name] if i is not None and name in i.keys() else [] for i in df], [])
\* over the images column
RECURSIVE SumImages(_, _)
SumImages(df, name) ==
    IF Len(df) = 0 THEN <<>>
    ELSE (IF df[1].t # "none" /\ name \in DOMAIN df[1] THEN df[1][name] ELSE <<>>)
             \o SumImages(Tail(df), name)

\* the loop over filtered with its seen set
RECURSIVE dedup_scan(_, _, _, _)
dedup_scan(elems, k, seen, out) ==
    IF k > Len(elems) THEN out
    ELSE IF elems[k].link \notin seen
         THEN dedup_scan(elems, k + 1, seen \cup {elems[k].link}, Append(out, elems[k]))
         ELSE dedup_scan(elems, k + 1, seen, out)

\* the loop keeping the last entry of a link in place of the first
RECURSIVE dedup_scan_last(_, _, _, _)
dedup_scan_last(elems, k, seen, out) ==
    IF k > Len(elems) THEN out
    ELSE IF elems[k].link \notin seen
         THEN dedup_scan_last(elems, k + 1, seen \cup {elems[k].link}, Append(out, elems[k]))
         ELSE dedup_scan_last(elems, k + 1, seen,
                  [p \in 1..Len(out) |->
                      IF out[p].link = elems[k].link THEN elems[k] ELSE out[p]])

images_field_keep_last(df, name) == dedup_scan_last(SumImages(df, name), 1, {}, <<>>)

\* one sub-list of merge_images
images_field(df, name) == dedup_scan(SumImages(df, name), 1, {}, <<>>)

merge_images(df) ==
    [t |-> "dict",
     rooms |-> images_field(df, ImagesFields[1]),
     site |-> images_field(df, ImagesFields[2]),
     amenities |-> images_field(df, ImagesFields[3])]

\* amenities dicts of the partial records (Amenities: two lists of str)
GeneralLists == {<<>>, <<"pool">>, <<"wifi">>, <<"pool", "pool">>,
                 <<"pool", "wifi">>, <<"wifi", "pool">>}
RoomLists == {<<>>, <<"tv">>, <<"tv", "tv">>}
AmenitiesDicts ==
    {[t |-> "dict", general |-> List(g), room |-> List(r)] :
        g \in GeneralLists, r \in RoomLists}

\* images dicts of the partial records (Images: three lists of link/description)
Img(l, d) == [link |-> l, description |-> d]
RoomImages == {<<>>, <<Img("u1", "x")>>, <<Img("u1", "y")>>, <<Img("u2", "x")>>,
               <<Img("u1", "x"), Img("u2", "y")>>, <<Img("u2", "x"), Img("u1", "y")>>,
               <<Img("u1", "x"), Img("u1", "y")>>}
SiteImages == {<<>>, <<Img("u3", "x")>>, <<Img("u3", "y")>>}
AmenityImages == {<<>>, <<Img("u4", "x")>>}
ImagesDicts ==
    {[t |-> "dict", rooms |-> r, site |-> w, amenities |-> a] :
        r \in RoomImages, w \in SiteImages, a \in AmenityImages}

InitAmenities ==
    /\ pc = "call"
    /\ amenities_df \in SeqsUpTo(AmenitiesDicts, MaxMembers)
    /\ amenities_ret = None
    /\ IdleLongest /\ IdleImages /\ IdleParse /\ IdleRun /\ IdleFind

CallMergeAmenities ==
    /\ pc = "call"
    /\ amenities_ret' \in merge_amenities(amenities_df)
    /\ pc' = "returned"
    /\ UNCHANGED <<field_kind, content_list, ret, amenities_df,
                   images_df, images_ret, supplier, dto, parsed, responses, supp,
                   all_supplier_data, hotels, hotel_ids, destination_ids, filtered>>

NextAmenities == CallMergeAmenities

SpecAmenities == InitAmenities /\ [][NextAmenities]_vars

InitImages ==
    /\ pc = "call"
    /\ images_df \in SeqsUpTo(ImagesDicts, MaxMembers)
    /\ images_ret = None
    /\ IdleLongest /\ IdleAmenities /\ IdleParse /\ IdleRun /\ IdleFind

CallMergeImages ==
    /\ pc = "call"
    /\ images_ret' = merge_images(images_df)
    /\ pc' = "returned"
    /\ UNCHANGED <<field_kind, content_list, ret, amenities_df, amenities_ret,
                   images_df, supplier, dto, parsed, responses, supp,
                   all_supplier_data, hotels, hotel_ids, destination_ids, filtered>>

NextImages == CallMergeImages

SpecImages == InitImages /\ [][NextImages]_vars

(***************************************************************************)
(* Claims about merge_amenities (SpecAmenities) and merge_images           *)
(* (SpecImages).                                                           *)
(***************************************************************************)
NoDuplicates(q) == \A a, b \in 1..Len(q) : a # b => q[a] # q[b]

\* the elements of all members' lists for one sub-list
MembersUnion(df, name) == UNION {Range(df[k][name].l) : k \in 1..Len(df)}

\* C7: each merged amenities sub-list has no duplicate string and its set of
\* elements is the union of the members' lists; a group whose members all
\* carry the same list yields that list's elements once each, and merging the
\* merged result again yields the same set.
C7_AmenitiesAreTheUnion ==
    pc = "returned" =>
        /\ amenities_ret.t = "dict"
        /\ \A f \in Range(AmenitiesFields) :
            /\ NoDuplicates(amenities_ret[f].l)
            /\ Range(amenities_ret[f].l) = MembersUnion(amenities_df, f)
            /\ (\A k \in 1..Len(amenities_df) : amenities_df[k][f] = amenities_df[1][f])
                   => /\ Range(amenities_ret[f].l) = Range(amenities_df[1][f].l)
                      /\ Len(amenities_ret[f].l) = Cardinality(Range(amenities_df[1][f].l))
            /\ \A again \in merge_amenities(<<amenities_ret>>) :
                   /\ again.t = "dict"
                   /\ Range(again[f].l) = Range(amenities_ret[f].l)

\* two members with overlapping and repeated amenities were merged
C7_Witness ==
    /\ pc = "returned"
    /\ Len(amenities_df) = 2
    /\ amenities_df[1].general = List(<<"pool", "pool">>)
    /\ amenities_df[2].general = List(<<"wifi", "pool">>)
    /\ Range(amenities_ret.general.l) = {"pool", "wifi"}
    /\ Len(amenities_ret.general.l) = 2

\* position of the first entry of elems carrying the link
FirstWithLink(elems, l) ==
    CHOOSE k \in 1..Len(elems) :
        elems[k].link = l /\ \A j \in 1..(k - 1) : elems[j].link # l

\* C6: each merged image sub-list is the concatenation of the members' lists
\* in group order with only the first entry of each link kept: no two entries
\* share a link, every link of a member appears, entries are in first-seen
\* order and carry the description of the first contributor.
C6_ImagesFirstSeenByLink ==
    pc = "returned" =>
        \A f \in Range(ImagesFields) :
            LET all == SumImages(images_df, f)
                got == images_ret[f]
            IN  /\ \A a, b \in 1..Len(got) : a # b => got[a].link # got[b].link
                /\ {all[k].link : k \in 1..Len(all)} = {got[k].link : k \in 1..Len(got)}
                /\ \A a \in 1..Len(got) : got[a] = all[FirstWithLink(all, got[a].link)]
                /\ \A a, b \in 1..Len(got) :
                       a < b => FirstWithLink(all, got[a].link) < FirstWithLink(all, got[b].link)

\* two members contribute the same link with different descriptions
C6_Witness ==
    /\ pc = "returned"
    /\ Len(images_df) = 2
    /\ images_df[1].rooms = <<Img("u2", "x"), Img("u1", "y")>>
    /\ images_df[2].rooms = <<Img("u1", "x")>>
    /\ images_ret.rooms = <<Img("u2", "x"), Img("u1", "y")>>

(***************************************************************************)
(* The supplier adapters. A raw element is a dict whose keys hold JSON     *)
(* values; ABSENT marks a key the element does not have. Raw amenity       *)
(* strings are sequences of characters, so that the text cleanup acts on   *)
(* them.                                                                   *)
(***************************************************************************)
ABSENT == [t |-> "absent", s |-> "", l |-> <<>>]

UpperChars == {"B", "C", "F", "P", "W"}
LowerChars == {"a", "b", "c", "e", "f", "i", "l", "n", "o", "p", "r", "s", "t", "u", "w"}

\* c.lower()
LowerChar(c) ==
    CASE c = "B" -> "b"
      [] c = "C" -> "c"
      [] c = "F" -> "f"
      [] c = "P" -> "p"
      [] c = "W" -> "w"
      [] OTHER -> c

\* r.lower()
Lower(r) == [k \in 1..Len(r) |-> LowerChar(r[k])]

\* r.strip()
RECURSIVE StripLeft(_)
StripLeft(r) ==
    IF Len(r) > 0 /\ r[1] = " " THEN StripLeft(Tail(r)) ELSE r

RECURSIVE StripRight(_)
StripRight(r) ==
    IF Len(r) > 0 /\ r[Len(r)] = " " THEN StripRight(SubSeq(r, 1, Len(r) - 1)) ELSE r

Strip(r) == StripRight(StripLeft(r))

\* the str the characters spell
RECURSIVE Cat(_)
Cat(r) == IF Len(r) = 0 THEN "" ELSE r[1] \o Cat(Tail(r))

\* the loop of acme_amenities_modify: a space after a lower-case character
\* that an upper-case character follows
RECURSIVE camel_split(_, _)
camel_split(r, k) ==
    IF k > Len(r) THEN <<>>
    ELSE (IF k < Len(r) /\ r[k] \in LowerChars /\ r[k + 1] \in UpperChars
          THEN <<r[k], " ">> ELSE <<r[k]>>)
             \o camel_split(r, k + 1)

acme_amenities_modify(r) ==
    IF Len(r) <= 5 THEN Cat(Lower(Strip(r)))
    ELSE Cat(Lower(Strip(camel_split(r, 1))))

\* r.strip().lower() of Patagonia.parse
patagonia_amenities_modify(r) == Cat(Lower(Strip(r)))

\* the iso3166 table as far as the model's codes go; any other code misses
CountryCodes == {"SG", "JP"}
CountryName(code) == IF code = "SG" THEN "Singapore" ELSE "Japan"

Hotel(id, destination_id, name, location, description, amenities, images, booking) ==
    [t |-> "hotel", id |-> id, destination_id |-> destination_id, name |-> name,
     location |-> location, description |-> description, amenities |-> amenities,
     images |-> images, booking_conditions |-> booking]

Location(lat, lng, address, city, country) ==
    [t |-> "dict", lat |-> lat, lng |-> lng, address |-> address, city |-> city,
     country |-> country]

Amenities(general, room) == [t |-> "dict", general |-> general, room |-> room]

Images(rooms, site, amenities) ==
    [t |-> "dict", rooms |-> rooms, site |-> site, amenities |-> amenities]

HasKeys(d, keys) == \A k \in keys : d[k].t # "absent"

AcmeKeys == {"Id", "DestinationId", "Name", "Latitude", "Longitude", "Address",
             "City", "Country", "Description", "Facilities"}

acme_parse(d) ==
    IF ~HasKeys(d, AcmeKeys) THEN Raised("KeyError")
    ELSE IF d.Country.t # "str" \/ d.Country.s \notin CountryCodes THEN Raised("KeyError")
    ELSE Hotel(d.Id, Str(PyStr(d.DestinationId)), d.Name,
               Location(d.Latitude, d.Longitude, d.Address, d.City,
                        Str(CountryName(d.Country.s))),
               d.Description,
               Amenities(IF d.Facilities.t = "none" THEN List(<<>>)
                         ELSE List([k \in 1..Len(d.Facilities.l) |->
                                      acme_amenities_modify(d.Facilities.l[k])]),
                         List(<<>>)),
               Images(<<>>, <<>>, <<>>),
               List(<<>>))

\* paperflies_images_modify / patagonia_images_modify: link and description
\* from the supplier's two keys
paperflies_images_modify(images) ==
    [k \in 1..Len(images.l) |->
        [link |-> images.l[k].link, description |-> images.l[k].caption]]

patagonia_images_modify(images) ==
    [k \in 1..Len(images.l) |->
        [link |-> images.l[k].url, description |-> images.l[k].description]]

\* Images(**{key: modify(value) for key, value in images.items()}) raises on
\* images that is None (no items()), on a key Images does not declare, on a
\* and on a value that is None (not iterable); "other" stands for any key
\* that is not a field of Images
ImagesRaise(images) ==
    \/ images.t # "dict"
    \/ images.other.t # "absent"
    \/ \E f \in Range(ImagesFields) : images[f].t = "none"

PaperfliesKeys == {"hotel_id", "destination_id", "hotel_name", "location", "details",
                   "amenities", "images", "booking_conditions"}

paperflies_parse(d) ==
    IF ~HasKeys(d, PaperfliesKeys) THEN Raised("KeyError")
    ELSE IF d.location.t # "dict" \/ d.amenities.t # "dict" THEN Raised("TypeError")
    ELSE IF ~HasKeys(d.location, {"address", "country"})
            \/ ~HasKeys(d.amenities, {"general", "room"}) THEN Raised("KeyError")
    ELSE IF d.images.t # "dict" THEN Raised("AttributeError")
    ELSE IF ImagesRaise(d.images) THEN Raised("TypeError")
    ELSE Hotel(d.hotel_id, Str(PyStr(d.destination_id)), d.hotel_name,
               Location(None, None, d.location.address, None, d.location.country),
               d.details,
               Amenities(d.amenities.general, d.amenities.room),
               Images(IF d.images.rooms.t = "absent" THEN <<>>
                      ELSE paperflies_images_modify(d.images.rooms),
                      IF d.images.site.t = "absent" THEN <<>>
                      ELSE paperflies_images_modify(d.images.site),
                      IF d.images.amenities.t = "absent" THEN <<>>
                      ELSE paperflies_images_modify(d.images.amenities)),
               d.booking_conditions)

PatagoniaKeys == {"id", "destination", "name", "lat", "lng", "address", "info",
                  "amenities", "images"}

patagonia_parse(d) ==
    IF ~HasKeys(d, PatagoniaKeys) THEN Raised("KeyError")
    ELSE IF d.images.t # "dict" THEN Raised("AttributeError")
    ELSE IF ImagesRaise(d.images) THEN Raised("TypeError")
    ELSE Hotel(d.id, Str(PyStr(d.destination)), d.name,
               Location(d.lat, d.lng, d.address, None, None),
               d.info,
               Amenities(List(<<>>),
                         IF d.amenities.t = "none" THEN List(<<>>)
                         ELSE List([k \in 1..Len(d.amenities.l) |->
                                      patagonia_amenities_modify(d.amenities.l[k])])),
               Images(IF d.images.rooms.t = "absent" THEN <<>>
                      ELSE patagonia_images_modify(d.images.rooms),
                      IF d.images.site.t = "absent" THEN <<>>
                      ELSE patagonia_images_modify(d.images.site),
                      IF d.images.amenities.t = "absent" THEN <<>>
                      ELSE patagonia_images_modify(d.images.amenities)),
               List(<<>>))

\* suppliers of fetch_hotels, in fetch order
Suppliers == <<"acme", "paperflies", "patagonia">>

parse(s, d) ==
    CASE s = "acme" -> acme_parse(d)
      [] s = "paperflies" -> paperflies_parse(d)
      [] OTHER -> patagonia_parse(d)

(***************************************************************************)
(* Raw supplier elements.                                                  *)
(***************************************************************************)
Pool == <<"P", "o", "o", "l">>
WiFiPadded == <<" ", "W", "i", "F", "i", " ">>
BusinessCenter == <<"B", "u", "s", "i", "n", "e", "s", "s", "C", "e", "n", "t", "e", "r">>
TvPadded == <<" ", "T", "v", " ">>

AcmeFacilities == {ABSENT, None, List(<<Pool>>), List(<<WiFiPadded, BusinessCenter>>)}

AcmeDto(id, name, lat, country, facilities) ==
    [t |-> "dict", Id |-> id, DestinationId |-> Num("7"), Name |-> name,
     Latitude |-> lat, Longitude |-> lat, Address |-> Str("a"), City |-> Str("b"),
     Country |-> country, Description |-> Str("cc"), Facilities |-> facilities]

AcmeDtos ==
    {AcmeDto(Str("H1"), name, lat, country, f) :
        name \in {None, Str("a")}, lat \in {Str(""), Num("1.5")},
        country \in {Str("SG"), Str("XX")}, f \in AcmeFacilities}

RawImage(l, c) == [link |-> l, caption |-> c, url |-> l, description |-> c]
RawImagesDict(rooms, other) ==
    [t |-> "dict", rooms |-> rooms, site |-> List(<<>>), amenities |-> ABSENT,
     other |-> other]
RawImages ==
    {None} \cup {RawImagesDict(r, o) :
                    r \in {ABSENT, None, List(<<RawImage("u1", "x")>>)},
                    o \in {ABSENT, List(<<>>)}}

PaperfliesAmenities ==
    {None} \cup {[t |-> "dict", general |-> g, room |-> r] :
                    g \in {ABSENT, None, List(<<"pool">>)},
                    r \in {None, List(<<"tv">>)}}

PaperfliesDto(id, amenities, images) ==
    [t |-> "dict", hotel_id |-> id, destination_id |-> Num("7"),
     hotel_name |-> Str("a"),
     location |-> [t |-> "dict", address |-> Str("a"), country |-> Str("Singapore")],
     details |-> Str("cc"), amenities |-> amenities, images |-> images,
     booking_conditions |-> List(<<"a">>)]

PaperfliesDtos ==
    {PaperfliesDto(Str("H1"), a, i) : a \in PaperfliesAmenities, i \in RawImages}

PatagoniaDto(id, lat, amenities, images) ==
    [t |-> "dict", id |-> id, destination |-> Num("7"), name |-> Str("b"),
     lat |-> lat, lng |-> lat, address |-> None, info |-> None,
     amenities |-> amenities, images |-> images]

PatagoniaDtos ==
    {PatagoniaDto(Str("H1"), lat, a, i) :
        lat \in {None, Num("1.25")}, a \in {ABSENT, None, List(<<TvPadded>>)},
        i \in RawImages}

Dtos(s) ==
    CASE s = "acme" -> AcmeDtos
      [] s = "paperflies" -> PaperfliesDtos
      [] OTHER -> PatagoniaDtos

InitParse ==
    /\ pc = "call"
    /\ supplier \in Range(Suppliers)
    /\ dto \in Dtos(supplier)
    /\ parsed = None
    /\ IdleLongest /\ IdleAmenities /\ IdleImages /\ IdleRun /\ IdleFind

CallParse ==
    /\ pc = "call"
    /\ parsed' = parse(supplier, dto)
    /\ pc' = "returned"
    /\ UNCHANGED <<field_kind, content_list, ret, amenities_df, amenities_ret,
                   images_df, images_ret, supplier, dto, responses, supp,
                   all_supplier_data, hotels, hotel_ids, destination_ids, filtered>>

NextParse == CallParse

SpecParse == InitParse /\ [][NextParse]_vars

(***************************************************************************)
(* Claim about the adapters (SpecParse).                                   *)
(***************************************************************************)
NullOrAbsent(v) == v.t \in {"none", "absent"}

\* C10: every partial record that parse returns has non-null lists for
\* amenities.general and amenities.room and for each image sub-list, a null or
\* absent collection of the raw record having become the empty list.
C10_NullCollectionsBecomeEmpty ==
    (pc = "returned" /\ parsed.t = "hotel") =>
        /\ parsed.amenities.general.t = "list"
        /\ parsed.amenities.room.t = "list"
        /\ (supplier = "acme" /\ NullOrAbsent(dto.Facilities))
               => parsed.amenities.general = List(<<>>)
        /\ (supplier = "paperflies" /\ NullOrAbsent(dto.amenities.general))
               => parsed.amenities.general = List(<<>>)
        /\ (supplier = "paperflies" /\ NullOrAbsent(dto.amenities.room))
               => parsed.amenities.room = List(<<>>)
        /\ (supplier = "patagonia" /\ NullOrAbsent(dto.amenities))
               => parsed.amenities.room = List(<<>>)
        /\ supplier \in {"paperflies", "patagonia"}
               => \A f \in Range(ImagesFields) :
                      NullOrAbsent(dto.images[f]) => parsed.images[f] = <<>>

(***************************************************************************)
(* HotelsService.merge_and_save                                            *)
(***************************************************************************)
\* the rows of one id, the last record first
rows_of_id_reversed(data, hotel_id) ==
    LET rows == SelectSeq(data, LAMBDA r : r.id = hotel_id)
    IN  [k \in 1..Len(rows) |-> rows[Len(rows) + 1 - k]]

\* cur_df = df.loc[df['id'] == hotel_id]: the rows of one id, in input order
rows_of_id(data, hotel_id) == SelectSeq(data, LAMBDA r : r.id = hotel_id)

\* cur_df[name]: one column of the rows
Column(df, name) == [k \in 1..Len(df) |-> df[k][name]]

merge_location(df, default_value) ==
    Location(longest_content(Column(df, "lat"), default_value),
             longest_content(Column(df, "lng"), default_value),
             longest_content(Column(df, "address"), default_value),
             longest_content(Column(df, "city"), default_value),
             longest_content(Column(df, "country"), default_value))

\* the body of the loop over hotel_ids: every hotel dict one group can yield,
\* or the exception merge_amenities raises
merge_group(cur_df) ==
    LET amenities == merge_amenities(Column(cur_df, "amenities"))
    IN  IF Raised("TypeError") \in amenities THEN {Raised("TypeError")}
        ELSE {Hotel(longest_content(Column(cur_df, "id"), MISSING),
                    longest_content(Column(cur_df, "destination_id"), MISSING),
                    longest_content(Column(cur_df, "name"), MISSING),
                    merge_location(Column(cur_df, "location"), MISSING),
                    longest_content(Column(cur_df, "description"), MISSING),
                    a,
                    merge_images(Column(cur_df, "images")),
                    longest_content(Column(cur_df, "booking_conditions"), MISSING)) :
                 a \in amenities}

\* merge_and_save: every catalog the call can build (hotel_ids is
\* list(set(...)), in any order), or the exception it raises
merge_and_save(data) ==
    LET ids == {data[k].id : k \in 1..Len(data)}
        groups == [i \in ids |-> merge_group(rows_of_id(data, i))]
    IN  IF \E i \in ids : Raised("TypeError") \in groups[i]
        THEN {Raised("TypeError")}
        ELSE LET merged == UNION {groups[i] : i \in ids}
             IN  {List(c) : c \in
                     {c \in [1..Cardinality(ids) -> merged] :
                         \E order \in ListOfSet(ids) :
                             \A k \in 1..Cardinality(ids) :
                                 c[k] \in groups[order[k]]}}

(***************************************************************************)
(* HotelsService.find                                                      *)
(***************************************************************************)
\* the argument "none"; any other argument is its pieces in order, an
\* identifier or a comma each
NoneArg == <<"none">>

\* s.split(',')
RECURSIVE split_from(_, _, _)
split_from(arg, k, token) ==
    IF k > Len(arg) THEN <<token>>
    ELSE IF arg[k] = "," THEN <<token>> \o split_from(arg, k + 1, "")
    ELSE split_from(arg, k + 1, token \o arg[k])

Split(arg) == split_from(arg, 1, "")

\* {value: pos for pos, value in enumerate(list)}.get(v, 0), read from the
\* front: the position of the first entry equal to v
rev_get_first(list, v) ==
    IF \A k \in 1..Len(list) : list[k] # v THEN 0
    ELSE (CHOOSE k \in 1..Len(list) :
              list[k] = v /\ \A j \in 1..(k - 1) : list[j] # v) - 1

\* {value: pos for pos, value in enumerate(list)}.get(v, 0): a later entry
\* of the comprehension overwrites an earlier one
RECURSIVE rev_scan(_, _, _, _)
rev_scan(list, v, k, found) ==
    IF k > Len(list) THEN found
    ELSE rev_scan(list, v, k + 1, IF list[k] = v THEN k - 1 ELSE found)

rev_get(list, v) == rev_scan(list, v, 1, 0)

\* series.isin(list) for one value
IsIn(v, list) == v.t = "str" /\ v.s \in Range(list)

KeyOf(v, list) == IF v.t = "str" THEN rev_get(list, v.s) ELSE 0

\* the sort key of a record
SortKey(x, hotel_list, destination_list) ==
    <<KeyOf(x.id, hotel_list), KeyOf(x.destination_id, destination_list)>>

KeyLess(a, b) == a[1] < b[1] \/ (a[1] = b[1] /\ a[2] < b[2])

\* sorted(ret, key=...): stable, by insertion after the last entry not greater
RECURSIVE insert_sorted(_, _, _, _)
insert_sorted(out, x, hl, dl) ==
    IF Len(out) = 0 THEN <<x>>
    ELSE IF KeyLess(SortKey(x, hl, dl), SortKey(out[Len(out)], hl, dl))
         THEN Append(insert_sorted(SubSeq(out, 1, Len(out) - 1), x, hl, dl), out[Len(out)])
         ELSE Append(out, x)

RECURSIVE sorted_by_key(_, _, _, _)
sorted_by_key(rows, k, hl, dl) ==
    IF k = 0 THEN <<>>
    ELSE insert_sorted(sorted_by_key(rows, k - 1, hl, dl), rows[k], hl, dl)

\* find. self.hotels is a DataFrame: one built from no hotel has no column,
\* so self.hotels['id'] and self.hotels['destination_id'] raise KeyError; with
\* both lists empty the mask is the bool True and self.hotels[True] raises
\* KeyError. The records keep their values through to_json / json.loads.
find(catalog, hids, dids) ==
    LET hotel_list == IF hids # NoneArg THEN Split(hids) ELSE <<>>
        destination_list == IF dids # NoneArg THEN Split(dids) ELSE <<>>
    IN  IF Len(catalog) = 0 THEN Raised("KeyError")
        ELSE IF hotel_list = <<>> /\ destination_list = <<>> THEN Raised("KeyError")
        ELSE LET rows == SelectSeq(catalog, LAMBDA h :
                             /\ (hotel_list = <<>> \/ IsIn(h.id, hotel_list))
                             /\ (destination_list = <<>>
                                    \/ IsIn(h.destination_id, destination_list)))
             IN  List(sorted_by_key(rows, Len(rows), hotel_list, destination_list))

(***************************************************************************)
(* find on a merged catalog (SpecFind).                                    *)
(***************************************************************************)
HotelIdSet == {"H1", "H2", "H3"}
DestIdSet == {"D7", "D9"}

\* ",".join(tokens), piece by piece
RECURSIVE JoinComma(_)
JoinComma(tokens) ==
    IF Len(tokens) = 1 THEN <<tokens[1]>>
    ELSE <<tokens[1], ",">> \o JoinComma(Tail(tokens))

\* the arguments of the command line: "none", or identifiers with commas
\* between them
ArgSet(idset, n) == {NoneArg} \cup {JoinComma(ts) : ts \in SeqsUpTo(idset, n)}

CatalogHotel(id, dest) ==
    Hotel(Str(id), Str(dest), Str("a"), Location(None, None, None, None, None),
          None, Amenities(List(<<>>), List(<<>>)), Images(<<>>, <<>>, <<>>),
          List(<<>>))

\* the catalogs merge_and_save builds: hotels of distinct ids, in any order
Catalogs ==
    UNION {{[k \in 1..n |-> CatalogHotel(c[k][1], c[k][2])] :
               c \in {c \in [1..n -> HotelIdSet \X DestIdSet] :
                         \A a, b \in 1..n : a # b => c[a][1] # c[b][1]}} :
           n \in 0..Cardinality(HotelIdSet)}

InitFind ==
    /\ pc = "call"
    /\ hotels \in Catalogs
    /\ hotel_ids \in ArgSet(HotelIdSet, MaxTokens)
    /\ destination_ids \in ArgSet(DestIdSet, MaxDestTokens)
    /\ filtered = None
    /\ IdleLongest /\ IdleAmenities /\ IdleImages /\ IdleParse /\ IdleRun

CallFind ==
    /\ pc = "call"
    /\ filtered' = find(hotels, hotel_ids, destination_ids)
    /\ pc' = "returned"
    /\ UNCHANGED <<field_kind, content_list, ret, amenities_df, amenities_ret,
                   images_df, images_ret, supplier, dto, parsed, responses, supp,
                   all_supplier_data, hotels, hotel_ids, destination_ids>>

NextFind == CallFind

SpecFind == InitFind /\ [][NextFind]_vars

(***************************************************************************)
(* Claims about find (SpecFind).                                           *)
(***************************************************************************)
\* the caller's two lists
HotelList == IF hotel_ids = NoneArg THEN <<>> ELSE Split(hotel_ids)
DestinationList == IF destination_ids = NoneArg THEN <<>> ELSE Split(destination_ids)

\* a catalog record passes the two filters
Passes(h) ==
    /\ (HotelList = <<>> \/ h.id.s \in Range(HotelList))
    /\ (DestinationList = <<>> \/ h.destination_id.s \in Range(DestinationList))

\* C3: with at least one filter list non-empty, find returns exactly the
\* catalog records that pass both filters, each once, whatever the catalog
\* and also when a list repeats an identifier.
C3_ExactlyThePassingRecords ==
    (pc = "returned" /\ (HotelList # <<>> \/ DestinationList # <<>>)) =>
        /\ filtered.t = "list"
        /\ Range(filtered.l) = {h \in Range(hotels) : Passes(h)}
        /\ NoDuplicates(filtered.l)

\* position (from 0) of the first / of the last entry equal to v; 0 when
\* the list has none
FirstPos(list, v) ==
    IF v \notin Range(list) THEN 0
    ELSE (CHOOSE k \in 1..Len(list) :
              list[k] = v /\ \A j \in 1..Len(list) : list[j] = v => k <= j) - 1

LastPos(list, v) ==
    IF v \notin Range(list) THEN 0
    ELSE (CHOOSE k \in 1..Len(list) :
              list[k] = v /\ \A j \in 1..Len(list) : list[j] = v => j <= k) - 1

PairLeq(a, b) == a[1] < b[1] \/ (a[1] = b[1] /\ a[2] <= b[2])

IdsOf(q) == [k \in 1..Len(q) |-> q[k].id.s]

\* the example of the claim: catalog ids H1, H2, H3 and find("H3,H1", "none")
ExampleHolds ==
    (/\ Len(hotels) = 3
     /\ hotel_ids = <<"H3", ",", "H1">>
     /\ destination_ids = NoneArg) => IdsOf(filtered.l) = <<"H3", "H1">>

\* C4 as stated: the records find returns are in ascending order of the pair
\* (index of id in hotelIds, index of destinationId in destinationIds), the
\* index being the identifier's first position in the caller's list and 0
\* when the list does not hold it.
C4_AscendingByFirstPosition ==
    (pc = "returned" /\ filtered.t = "list") =>
        /\ \A a, b \in 1..Len(filtered.l) :
               a < b =>
                   PairLeq(<<FirstPos(HotelList, filtered.l[a].id.s),
                             FirstPos(DestinationList, filtered.l[a].destination_id.s)>>,
                           <<FirstPos(HotelList, filtered.l[b].id.s),
                             FirstPos(DestinationList, filtered.l[b].destination_id.s)>>)
        /\ ExampleHolds

\* C4 as amended: the same, the index being the identifier's last position in
\* the caller's list when the list repeats it.
C4_AscendingByLastPosition ==
    (pc = "returned" /\ filtered.t = "list") =>
        /\ \A a, b \in 1..Len(filtered.l) :
               a < b =>
                   PairLeq(<<LastPos(HotelList, filtered.l[a].id.s),
                             LastPos(DestinationList, filtered.l[a].destination_id.s)>>,
                           <<LastPos(HotelList, filtered.l[b].id.s),
                             LastPos(DestinationList, filtered.l[b].destination_id.s)>>)
        /\ ExampleHolds

\* a list that repeats H1 around H2: H2 is returned before H1
C4_Witness ==
    /\ pc = "returned"
    /\ hotel_ids = <<"H1", ",", "H2", ",", "H1">>
    /\ IdsOf(hotels) = <<"H1", "H2", "H3">>
    /\ filtered.t = "list"
    /\ IdsOf(filtered.l) = <<"H2", "H1">>

\* C3 on the catalogs that hold a hotel
C3_OnNonEmptyCatalogs == Len(hotels) > 0 => C3_ExactlyThePassingRecords

\* C5: with both arguments "none", find completes and returns every record of
\* the catalog in the catalog's order (stated for a catalog that holds a
\* hotel: on the empty catalog find raises whatever the arguments, see C3).
C5_NoFilterReturnsTheCatalog ==
    (pc = "returned" /\ hotel_ids = NoneArg /\ destination_ids = NoneArg
        /\ Len(hotels) > 0) =>
        /\ filtered.t = "list"
        /\ filtered.l = hotels

(***************************************************************************)
(* fetch_hotels: the run (Spec).                                           *)
(***************************************************************************)
AcmeGood == AcmeDto(Str("H1"), Str("a"), Num("1.5"), Str("SG"), List(<<Pool, Pool>>))
AcmeMalformed == AcmeDto(Str("H2"), Str("a"), Num("1.5"), Str("SG"), ABSENT)

PaperfliesGood(id, caption) ==
    PaperfliesDto(Str(id),
                  [t |-> "dict", general |-> List(<<"wifi", "pool">>),
                   room |-> List(<<"tv">>)],
                  RawImagesDict(List(<<RawImage("u1", caption)>>), ABSENT))
PaperfliesNullGeneral ==
    PaperfliesDto(Str("H2"),
                  [t |-> "dict", general |-> None, room |-> List(<<"tv">>)],
                  RawImagesDict(List(<<>>), ABSENT))

PatagoniaGood ==
    PatagoniaDto(Str("H1"), Num("1.25"), List(<<TvPadded>>),
                 RawImagesDict(List(<<RawImage("u1", "y"), RawImage("u2", "y")>>), ABSENT))
PatagoniaMalformed == PatagoniaDto(Str("H1"), Num("1.25"), None, None)

RunDtos(s) ==
    CASE s = "acme" -> {AcmeGood, AcmeMalformed}
      [] s = "paperflies" -> {PaperfliesGood("H1", "x"), PaperfliesGood("H2", "x"),
                              PaperfliesNullGeneral}
      [] OTHER -> {PatagoniaGood, PatagoniaMalformed}

\* what an endpoint answers: a JSON array, or the GET or resp.json() raises
Responses(s) ==
    {Raised("FetchFailure"), List(<<>>)}
        \cup {List(q) : q \in SeqsUpTo(RunDtos(s), MaxElems)}

RunArgs == {<<NoneArg, NoneArg>>, <<<<"H2", ",", "H1">>, NoneArg>>, <<NoneArg, <<"7">>>>}

\* BaseSupplier.fetch with a parse failure caught element by element
fetch_skip_malformed(s, response) ==
    IF response.t = "raise" THEN response
    ELSE LET all == [k \in 1..Len(response.l) |-> parse(s, response.l[k])]
         IN  List(SelectSeq(all, LAMBDA h : h.t # "raise"))

\* BaseSupplier.fetch: the list of the parsed elements, or the exception of
\* the GET or of the first element whose parse raises
fetch(s, response) ==
    IF response.t = "raise" THEN response
    ELSE LET all == [k \in 1..Len(response.l) |-> parse(s, response.l[k])]
         IN  IF \E k \in 1..Len(all) : all[k].t = "raise"
             THEN all[CHOOSE k \in 1..Len(all) :
                         all[k].t = "raise" /\ \A j \in 1..(k - 1) : all[j].t # "raise"]
             ELSE List(all)

Init ==
    /\ pc = "fetch"
    /\ responses \in {r \in [1..Len(Suppliers) -> UNION {Responses(Suppliers[k]) : k \in 1..Len(Suppliers)}] :
                         \A k \in 1..Len(Suppliers) : r[k] \in Responses(Suppliers[k])}
    /\ supp = 0
    /\ all_supplier_data = <<>>
    /\ hotels = <<>>
    /\ \E a \in RunArgs : hotel_ids = a[1] /\ destination_ids = a[2]
    /\ filtered = None
    /\ IdleLongest /\ IdleAmenities /\ IdleImages /\ IdleParse

\* one turn of the loop over suppliers: all_supplier_data.extend(supp.fetch())
FetchSupplier ==
    /\ pc = "fetch"
    /\ LET got == fetch(Suppliers[supp + 1], responses[supp + 1])
       IN  IF got.t = "raise"
           THEN /\ pc' = "raised"
                /\ filtered' = got
                /\ UNCHANGED <<supp, all_supplier_data>>
           ELSE /\ all_supplier_data' = all_supplier_data \o got.l
                /\ supp' = supp + 1
                /\ pc' = IF supp + 1 = Len(Suppliers) THEN "merge" ELSE "fetch"
                /\ UNCHANGED filtered
    /\ UNCHANGED <<field_kind, content_list, ret, amenities_df, amenities_ret,
                   images_df, images_ret, supplier, dto, parsed, responses,
                   hotels, hotel_ids, destination_ids>>

\* svc.merge_and_save(all_supplier_data); the service of a call that raised
\* is dropped with the hotels it had appended
MergeAndSave ==
    /\ pc = "merge"
    /\ \E catalog \in merge_and_save(all_supplier_data) :
           IF catalog.t = "raise"
           THEN pc' = "raised" /\ filtered' = catalog /\ UNCHANGED hotels
           ELSE pc' = "find" /\ hotels' = catalog.l /\ UNCHANGED filtered
    /\ UNCHANGED <<field_kind, content_list, ret, amenities_df, amenities_ret,
                   images_df, images_ret, supplier, dto, parsed, responses, supp,
                   all_supplier_data, hotel_ids, destination_ids>>

\* filtered = svc.find(hotel_ids, destination_ids); return filtered
Find ==
    /\ pc = "find"
    /\ filtered' = find(hotels, hotel_ids, destination_ids)
    /\ pc' = IF filtered'.t = "raise" THEN "raised" ELSE "done"
    /\ UNCHANGED <<field_kind, content_list, ret, amenities_df, amenities_ret,
                   images_df, images_ret, supplier, dto, parsed, responses, supp,
                   all_supplier_data, hotels, hotel_ids, destination_ids>>

Next == FetchSupplier \/ MergeAndSave \/ Find

Spec == Init /\ [][Next]_vars

(***************************************************************************)
(* Claims about the run (Spec).                                            *)
(***************************************************************************)
\* the amenities of every record are lists, as Amenities declares them
WellTyped(data) ==
    \A k \in 1..Len(data) :
        data[k].amenities.general.t = "list" /\ data[k].amenities.room.t = "list"

\* merge_and_save has been called on all_supplier_data
MergeCalled == supp = Len(Suppliers) /\ pc # "merge"

\* the records of all_supplier_data with the id, in input order
Group(id) == SelectSeq(all_supplier_data, LAMBDA r : r.id = id)

\* the rooms images of a group's members end to end, in input order
RECURSIVE RoomsOf(_)
RoomsOf(group) ==
    IF Len(group) = 0 THEN <<>> ELSE group[1].images.rooms \o RoomsOf(Tail(group))

\* C2: merge_and_save builds a catalog that holds exactly one hotel for each
\* id of the input and no other hotel; every record of an id contributes to
\* that hotel (its amenities are in the union), the members taken in their
\* input order (an image link carries its first contributor's description).
C2_OneHotelPerId ==
    (MergeCalled /\ WellTyped(all_supplier_data)) =>
        /\ \A a, b \in 1..Len(hotels) : a # b => hotels[a].id # hotels[b].id
        /\ {hotels[k].id : k \in 1..Len(hotels)}
               = {all_supplier_data[k].id : k \in 1..Len(all_supplier_data)}
        /\ \A k \in 1..Len(hotels) :
               LET h == hotels[k]
                   group == Group(h.id)
                   rooms == RoomsOf(group)
               IN  /\ Range(h.amenities.general.l)
                          = UNION {Range(group[j].amenities.general.l) : j \in 1..Len(group)}
                   /\ Range(h.amenities.room.l)
                          = UNION {Range(group[j].amenities.room.l) : j \in 1..Len(group)}
                   /\ h.name \in {group[j].name : j \in 1..Len(group)}
                   /\ h.destination_id \in {group[j].destination_id : j \in 1..Len(group)}
                   /\ {h.images.rooms[j].link : j \in 1..Len(h.images.rooms)}
                          = {rooms[j].link : j \in 1..Len(rooms)}
                   /\ \A j \in 1..Len(h.images.rooms) :
                          h.images.rooms[j]
                              = rooms[FirstWithLink(rooms, h.images.rooms[j].link)]

\* two ids, H1 held by the three suppliers: its image u1 keeps the
\* description of Paperflies, fetched before Patagonia
C2_Witness ==
    /\ pc = "done"
    /\ Len(hotels) = 2
    /\ Len(Group(Str("H1"))) = 3
    /\ \E k \in 1..Len(hotels) :
           /\ hotels[k].id = Str("H1")
           /\ hotels[k].images.rooms = <<Img("u1", "x"), Img("u2", "y")>>
           /\ Range(hotels[k].amenities.general.l) = {"pool", "wifi"}

\* the fetch of supplier k, or the parse of one of its elements, fails
SupplierFails(k) ==
    \/ responses[k].t = "raise"
    \/ \E j \in 1..Len(responses[k].l) :
           parse(Suppliers[k], responses[k].l[j]).t = "raise"

\* the parsed elements of the first n suppliers, end to end
RECURSIVE ParsedUpTo(_)
ParsedUpTo(n) ==
    IF n = 0 THEN <<>>
    ELSE ParsedUpTo(n - 1)
             \o [j \in 1..Len(responses[n].l) |-> parse(Suppliers[n], responses[n].l[j])]

\* C8: when the fetch or the parse of any element of any supplier fails the
\* run merges nothing and returns nothing, the exception reaches the caller,
\* and no element of the failing supplier's list is kept.
C8_NoPartialSuccess ==
    /\ (\E k \in 1..Len(Suppliers) : SupplierFails(k))
           => /\ pc \in {"fetch", "raised"}
              /\ hotels = <<>>
              /\ filtered.t # "list"
    /\ \A k \in 1..supp : ~SupplierFails(k)
    /\ all_supplier_data = ParsedUpTo(supp)
    /\ (pc = "fetch" => filtered = None)
    /\ (pc = "raised" /\ supp < Len(Suppliers))
           => SupplierFails(supp + 1) /\ filtered.t = "raise"
    /\ (pc = "done" => filtered.t = "list")

\* the third supplier's second element is malformed: the run has raised with
\* the first element dropped and nothing merged
C8_Witness ==
    /\ pc = "raised"
    /\ supp = 2
    /\ responses[3] = List(<<PatagoniaGood, PatagoniaMalformed>>)
    /\ Len(all_supplier_data) = Len(responses[1].l) + Len(responses[2].l)
    /\ Len(all_supplier_data) > 0
    /\ hotels = <<>>
    /\ filtered.t = "raise"

====
